---- MODULE Spec2Model ----
(***************************************************************************)
(* Model of Sales.py, the Hoodlums Seafood sales dashboard: one run of the *)
(* script from the three loaded tables to the rendered page.               *)
(*                                                                         *)
(* Numbers.  RRP, Material Cost and Amount are fixed-point numbers in      *)
(* hundredths (Scale); Sales and Profit, products of two such numbers, are *)
(* in ten-thousandths (Scale * Scale).  A cell of a table is a record      *)
(* [k, s, n]: a string of characters (k = "str"), a number (k = "num") or  *)
(* a missing value (k = "nan").  Text columns that pandas fills with NaN   *)
(* on a failed match hold the marker NoMatch.                               *)
(***************************************************************************)
EXTENDS Integers, Sequences, FiniteSets, TLC

\* ------------------------------------------------------------------ bounds
MaxTx == 2
MaxItems == 2
MaxStaff == 2

\* --------------------------------------------------------------- constants
Scale == 100
PayPercent == 30
TopN == 10
TickThreshold == 2000
TickSmall == 100
TickLarge == 500

\* ------------------------------------------------------------------- cells
Str(s) == [k |-> "str", s |-> s, n |-> 0]
Num(n) == [k |-> "num", s |-> <<>>, n |-> n]
NaN == [k |-> "nan", s |-> <<>>, n |-> 0]
NoMatch == "NaN"

Digits == <<"0", "1", "2", "3", "4", "5", "6", "7", "8", "9">>

IsDigit(c) == \E i \in 1..10 : Digits[i] = c

DigitVal(c) == (CHOOSE i \in 1..10 : Digits[i] = c) - 1

\* re.sub('[\$,]', '', s): the characters of s other than "$" and ","
RECURSIVE StripCurrency(_)
StripCurrency(s) ==
    IF s = <<>> THEN <<>>
    ELSE IF Head(s) \in {"$", ","} THEN StripCurrency(Tail(s))
    ELSE <<Head(s)>> \o StripCurrency(Tail(s))

RECURSIVE DigitsValue(_)
DigitsValue(s) ==
    IF s = <<>> THEN 0
    ELSE DigitsValue(SubSeq(s, 1, Len(s) - 1)) * 10 + DigitVal(s[Len(s)])

DotPositions(s) == {i \in 1..Len(s) : s[i] = "."}

\* float(s) succeeds on an optional minus sign, digits and at most one point,
\* with at least one digit (the decimal literals of the sheets).
Unsigned(s) == IF s # <<>> /\ Head(s) = "-" THEN Tail(s) ELSE s

IsFloatLiteral(s) ==
    LET u == Unsigned(s) IN
    /\ \A i \in 1..Len(u) : IsDigit(u[i]) \/ u[i] = "."
    /\ Cardinality(DotPositions(u)) <= 1
    /\ \E i \in 1..Len(u) : IsDigit(u[i])

\* float(s) in hundredths; digits past the second decimal are dropped
FloatValue(s) ==
    LET u == Unsigned(s)
        dot == IF DotPositions(u) = {} THEN Len(u) + 1
               ELSE CHOOSE i \in DotPositions(u) : TRUE
        whole == SubSeq(u, 1, dot - 1)
        frac == SubSeq(u, dot + 1, Len(u))
        f1 == IF Len(frac) >= 1 THEN DigitVal(frac[1]) ELSE 0
        f2 == IF Len(frac) >= 2 THEN DigitVal(frac[2]) ELSE 0
        mag == DigitsValue(whole) * Scale + f1 * 10 + f2
    IN IF u # s THEN 0 - mag ELSE mag

\* Series.replace('[\$,]', '', regex=True): strings are rewritten, numbers and
\* NaN are left alone
ReplaceCurrency(v) == IF v.k = "str" THEN Str(StripCurrency(v.s)) ELSE v

\* astype(float) raises ValueError on a string that is no float literal
AstypeFloatRaises(v) == v.k = "str" /\ ~IsFloatLiteral(v.s)

AstypeFloat(v) == IF v.k = "str" THEN Num(FloatValue(v.s)) ELSE v

\* errors="coerce" forgotten: to_numeric raises whatever errors says
ToNumericRaisesStrict(v, errors) == v.k = "str" /\ ~IsFloatLiteral(v.s)

\* pd.to_numeric(errors=...): "coerce" turns an unparsable string into NaN,
\* "raise" raises
ToNumericRaises(v, errors) ==
    errors = "raise" /\ v.k = "str" /\ ~IsFloatLiteral(v.s)

ToNumeric(v, errors) ==
    IF v.k # "str" THEN v
    ELSE IF IsFloatLiteral(v.s) THEN Num(FloatValue(v.s))
    ELSE NaN

\* float arithmetic: NaN propagates
Mul(a, b) == IF a.k = "num" /\ b.k = "num" THEN Num(a.n * b.n) ELSE NaN

Sub(a, b) == IF a.k = "num" /\ b.k = "num" THEN Num(a.n - b.n) ELSE NaN

\* ------------------------------------------------------------------ inputs
\* A Timestamp is a count of half days: Timestamp.date() is the day.
Timestamps == {1, 2}

DateOf(ts) == ts \div 2

Foods == {"Cod", "Eel"}

Users == {"a@x.com", "b@x.com"}

Customers == {"Kim", "Lee"}

\* "2" parses as a number, "n.a." does not
AmountCells == {Str(<<"2">>), Str(<<"n", ".", "a", ".">>)}

\* Kim buys Cod and Lee buys Eel; the unreadable Amount is in a sale of Cod
\* by a@x.com on the first day
TxRows ==
    {r \in [Timestamp : Timestamps, Food : Foods, User : Users,
            Customer : Customers, Amount : AmountCells] :
        /\ (r.Customer = "Kim") = (r.Food = "Cod")
        /\ (r.Amount # Str(<<"2">>)) =>
              (r.Timestamp = 1 /\ r.Food = "Cod" /\ r.User = "a@x.com")}

\* the Item sheet, after items.columns = [...]; Mates Rates is never read
ItemRows ==
    { [Item |-> "Cod", MaterialCost |-> Str(<<"$", "2", ".", "0", "0">>),
       RRP |-> Str(<<"$", "5", ".", "0", "0">>)],
      [Item |-> "Eel", MaterialCost |-> Str(<<"$", "9", "0", "0">>),
       RRP |-> Str(<<"$", "1", ",", "2", "0", "0", ".", "5">>)],
      [Item |-> "Eel", MaterialCost |-> Str(<<"T", "B", "C">>),
       RRP |-> Str(<<"$", "3", ".", "0", "0">>)],
      [Item |-> "Cod", MaterialCost |-> Str(<<"$", "1", ".", "0", "0">>),
       RRP |-> Str(<<"P", "O", "A">>)] }

StaffRows ==
    { [Email |-> "a@x.com", StaffName |-> "Alice"],
      [Email |-> "b@x.com", StaffName |-> "Bob"] }

\* The tables of at most n rows of S, one order for each multiset of rows: no
\* step of the script reads the position of a row (the joins, the group-bys
\* and the sums do not), only the order of the rendered rows follows it.
RECURSIVE Listed(_)
Listed(S) ==
    IF S = {} THEN <<>>
    ELSE LET x == CHOOSE y \in S : TRUE IN <<x>> \o Listed(S \ {x})

TablesUpTo(S, n) ==
    LET pool == Listed(S)
    IN UNION {{[i \in 1..m |-> pool[ix[i]]] :
                 ix \in {f \in [1..m -> 1..Len(pool)] :
                           \A i \in 1..(m - 1) : f[i] <= f[i + 1]}} :
              m \in 0..n}

\* groupby sorts its keys; sort_values keeps tied rows in that order
NameOrder == <<"Alice", "Bob", "Cod", "Eel", "Kim", "Lee">>

Rank(name) == CHOOSE i \in 1..Len(NameOrder) : NameOrder[i] = name

\* an uncaught exception ends the run; the traceback names its line
NoError == [type |-> "none", line |-> 0]

ValueError(line) == [type |-> "ValueError", line |-> line]

\* ------------------------------------------------------------------- state
VARIABLES transactions, items, staff, pc, err, rendered, warnings,
          start_date, end_date, filtered_tx, merged, selected_staff,
          filtered_merged, total_sales, total_transactions, top_staff,
          top_sales, sales_by_item, staff_summary, top_profit_items,
          sales_by_customer, display_df, tick_step, tick_step_customer

vars == <<transactions, items, staff, pc, err, rendered, warnings,
          start_date, end_date, filtered_tx, merged, selected_staff,
          filtered_merged, total_sales, total_transactions, top_staff,
          top_sales, sales_by_item, staff_summary, top_profit_items,
          sales_by_customer, display_df, tick_step, tick_step_customer>>

Range(s) == {s[i] : i \in 1..Len(s)}

RECURSIVE Flatten(_)
Flatten(ss) == IF ss = <<>> THEN <<>> ELSE Head(ss) \o Flatten(Tail(ss))

Min(S) == CHOOSE x \in S : \A y \in S : x <= y

Max(S) == CHOOSE x \in S : \A y \in S : x >= y

\* transactions["Timestamp"].min().date() and .max().date()
min_date == DateOf(Min({t.Timestamp : t \in Range(transactions)}))

max_date == DateOf(Max({t.Timestamp : t \in Range(transactions)}))

Init ==
    /\ transactions \in TablesUpTo(TxRows, MaxTx) \ {<<>>}
    /\ items \in TablesUpTo(ItemRows, MaxItems)
    /\ staff \in TablesUpTo(StaffRows, MaxStaff)
    /\ pc = "DateFilter"
    /\ err = NoError
    /\ rendered = <<>>
    /\ warnings = {}
    /\ start_date = 0
    /\ end_date = 0
    /\ filtered_tx = <<>>
    /\ merged = <<>>
    /\ selected_staff = {}
    /\ filtered_merged = <<>>
    /\ total_sales = 0
    /\ total_transactions = 0
    /\ top_staff = NoMatch
    /\ top_sales = 0
    /\ sales_by_item = <<>>
    /\ staff_summary = <<>>
    /\ top_profit_items = <<>>
    /\ sales_by_customer = <<>>
    /\ display_df = <<>>
    /\ tick_step = 0
    /\ tick_step_customer = 0

\* ----------------------------------------------------- lines 35-43: filter
\* start and end exchanged
DateMaskSwapped(t, a, b) == DateOf(t.Timestamp) >= b /\ DateOf(t.Timestamp) <= a

\* mask = (Timestamp.dt.date >= start_date) & (Timestamp.dt.date <= end_date)
DateMask(t, a, b) == DateOf(t.Timestamp) >= a /\ DateOf(t.Timestamp) <= b

\* transactions[mask]; each kept row remembers its position in transactions
FilterTx(txs, a, b) ==
    LET tagged == [i \in 1..Len(txs) |-> [tx |-> i] @@ txs[i]]
    IN SelectSeq(tagged, LAMBDA t : DateMask(t, a, b))

DateFilter ==
    /\ pc = "DateFilter"
    /\ \E a \in min_date..max_date, b \in min_date..max_date :
        /\ start_date' = a
        /\ end_date' = b
        /\ filtered_tx' = FilterTx(transactions, a, b)
    /\ pc' = "Join"
    /\ UNCHANGED <<transactions, items, staff, err, rendered, warnings, merged,
                   selected_staff, filtered_merged, total_sales,
                   total_transactions, top_staff, top_sales, sales_by_item,
                   staff_summary, top_profit_items, sales_by_customer,
                   display_df,
                   tick_step, tick_step_customer>>

\* ------------------------------------------------------- lines 48-62: join
\* pd.merge(left, right, how="left"): every left row, once per right row with
\* an equal key, in the right table's order; once with NaN if there is none
NoItem == [Item |-> NoMatch, MaterialCost |-> NaN, RRP |-> NaN]

NoStaff == [Email |-> NoMatch, StaffName |-> NoMatch]

LeftMerge(left, right, lkey, rkey, blank) ==
    Flatten([i \in 1..Len(left) |->
        LET hits == SelectSeq(right, LAMBDA r : r[rkey] = left[i][lkey])
        IN IF hits = <<>> THEN <<left[i] @@ blank>>
           ELSE [j \in 1..Len(hits) |-> left[i] @@ hits[j]]])

JoinTables(ftx) ==
    LET merge1 == LeftMerge(ftx, items, "Food", "Item", NoItem)
    IN LeftMerge(merge1, staff, "User", "Email", NoStaff)

Join ==
    /\ pc = "Join"
    /\ merged' = JoinTables(filtered_tx)
    /\ pc' = "Derive"
    /\ UNCHANGED <<transactions, items, staff, err, rendered, warnings,
                   start_date, end_date, filtered_tx, selected_staff,
                   filtered_merged, total_sales, total_transactions, top_staff,
                   top_sales, sales_by_item, staff_summary, top_profit_items,
                   sales_by_customer, display_df,
                   tick_step, tick_step_customer>>

\* ---------------------------------------------------- lines 64-71: derive
\* merged["RRP"].replace(...).astype(float); pd.to_numeric(Amount, "coerce");
\* Sales = Amount * RRP
DeriveSalesRow(r) ==
    LET rrp == AstypeFloat(ReplaceCurrency(r.RRP))
        amount == ToNumeric(r.Amount, "coerce")
    IN [RRP |-> rrp, Amount |-> amount, Sales |-> Mul(amount, rrp)] @@ r

RRPRaises(rows) ==
    \E i \in 1..Len(rows) : AstypeFloatRaises(ReplaceCurrency(rows[i].RRP))

AmountRaises(rows) ==
    \E i \in 1..Len(rows) : ToNumericRaises(rows[i].Amount, "coerce")

Derive ==
    /\ pc = "Derive"
    /\ IF RRPRaises(merged)
       THEN /\ err' = ValueError(65)
            /\ pc' = "crashed"
            /\ UNCHANGED merged
       ELSE IF AmountRaises(merged)
       THEN /\ err' = ValueError(68)
            /\ pc' = "crashed"
            /\ UNCHANGED merged
       ELSE /\ merged' = [i \in 1..Len(merged) |-> DeriveSalesRow(merged[i])]
            /\ pc' = "StaffFilter"
            /\ UNCHANGED err
    /\ UNCHANGED <<transactions, items, staff, rendered, warnings, start_date,
                   end_date, filtered_tx, selected_staff, filtered_merged,
                   total_sales, total_transactions, top_staff, top_sales,
                   sales_by_item, staff_summary, top_profit_items,
                   sales_by_customer, display_df,
                   tick_step, tick_step_customer>>

\* ---------------------------------------------- lines 76-80: staff filter
\* merged["Staff Name"].dropna().unique()
staff_names == {merged[i].StaffName : i \in 1..Len(merged)} \ {NoMatch}

\* no staff filter at all
StaffMaskAll(r, selected) == TRUE

\* rows without a Staff Name pass the filter
StaffMaskNaN(r, selected) == r.StaffName \in selected \cup {NoMatch}

\* merged[merged["Staff Name"].isin(selected)]
StaffMask(r, selected) == r.StaffName \in selected

StaffFilter ==
    /\ pc = "StaffFilter"
    /\ \E selected \in SUBSET staff_names :
        /\ selected_staff' = selected
        /\ filtered_merged' = SelectSeq(merged, LAMBDA r : StaffMask(r, selected))
    /\ pc' = "Metrics"
    /\ UNCHANGED <<transactions, items, staff, err, rendered, warnings,
                   start_date, end_date, filtered_tx, merged, total_sales,
                   total_transactions, top_staff, top_sales, sales_by_item,
                   staff_summary, top_profit_items, sales_by_customer,
                   display_df,
                   tick_step, tick_step_customer>>

\* ------------------------------------------------------------ aggregation
\* Series.sum(): NaN is skipped, the sum of nothing is 0
RECURSIVE SumCol(_, _)
SumCol(rows, col) ==
    IF rows = <<>> THEN 0
    ELSE (IF Head(rows)[col].k = "num" THEN Head(rows)[col].n ELSE 0)
         + SumCol(Tail(rows), col)

\* the distinct non-NaN values of a text column, in sorted order
RECURSIVE SortedKeys(_)
SortedKeys(S) ==
    IF S = {} THEN <<>>
    ELSE LET k == CHOOSE x \in S : \A y \in S : Rank(x) <= Rank(y)
         IN <<k>> \o SortedKeys(S \ {k})

GroupKeys(rows, key) ==
    SortedKeys({rows[i][key] : i \in 1..Len(rows)} \ {NoMatch})

\* rows.groupby(key)[col].sum().reset_index()
GroupSum(rows, key, col) ==
    LET keys == GroupKeys(rows, key)
    IN [i \in 1..Len(keys) |->
          [key |-> keys[i],
           val |-> SumCol(SelectSeq(rows, LAMBDA r : r[key] = keys[i]), col)]]

\* sort_values(by=val, ascending=False): tied rows keep their order
RECURSIVE InsertDesc(_, _)
InsertDesc(x, s) ==
    IF s = <<>> THEN <<x>>
    ELSE IF Head(s).val >= x.val THEN <<Head(s)>> \o InsertDesc(x, Tail(s))
    ELSE <<x>> \o s

RECURSIVE SortDesc(_)
SortDesc(s) ==
    IF s = <<>> THEN <<>>
    ELSE InsertDesc(s[Len(s)], SortDesc(SubSeq(s, 1, Len(s) - 1)))

HeadN(s, n) == SubSeq(s, 1, IF Len(s) < n THEN Len(s) ELSE n)

\* -------------------------------------------------------------- formatting
RECURSIVE DigitChars(_)
DigitChars(n) ==
    IF n < 10 THEN <<Digits[n + 1]>>
    ELSE DigitChars(n \div 10) \o <<Digits[(n % 10) + 1]>>

\* the "," option of the format specification: groups of three from the right
RECURSIVE GroupThousands(_)
GroupThousands(d) ==
    IF Len(d) <= 3 THEN d
    ELSE GroupThousands(SubSeq(d, 1, Len(d) - 3)) \o <<",">>
         \o SubSeq(d, Len(d) - 2, Len(d))

\* a / b rounded to the nearest integer, halves to even, for a >= 0
RoundDiv(a, b) ==
    LET q == a \div b
        r == a % b
    IN IF 2 * r > b \/ (2 * r = b /\ q % 2 = 1) THEN q + 1 ELSE q

SalesUnit == Scale * Scale

\* "${:,.2f}".format of a signed number of cents
FormatCents(mag, negative) ==
    (IF negative /\ mag > 0 THEN <<"$", "-">> ELSE <<"$">>)
    \o GroupThousands(DigitChars(mag \div 100))
    \o <<".", Digits[((mag \div 10) % 10) + 1], Digits[(mag % 10) + 1]>>

Abs(x) == IF x < 0 THEN 0 - x ELSE x

\* "${:,.2f}".format(x) for a Sales or Profit value x
FormatCurrency(x) == FormatCents(RoundDiv(Abs(x), SalesUnit \div 100), x < 0)

\* "${:,.2f}".format(x * 0.30)
FormatPay(x) ==
    LET q == Abs(x) \div SalesUnit
        r == Abs(x) % SalesUnit
    IN FormatCents(q * PayPercent + RoundDiv(r * PayPercent, SalesUnit), x < 0)

\* -------------------------------------------------- lines 98-120: metrics
\* Series.idxmax() raises ValueError on an empty Series; among tied maxima
\* the label it returns follows the sort, which the claims leave open
TopStaffRaises(by_staff) == by_staff = <<>>

\* the first label of the group-by, not the label of the maximum
TopStaffChoicesFirst(by_staff) == {by_staff[1].key}

TopStaffChoices(by_staff) ==
    {by_staff[i].key : i \in {j \in 1..Len(by_staff) :
        \A k \in 1..Len(by_staff) : by_staff[j].val >= by_staff[k].val}}

TopSales(by_staff) == Max({by_staff[i].val : i \in 1..Len(by_staff)})

Metrics ==
    /\ pc = "Metrics"
    /\ total_sales' = SumCol(filtered_merged, "Sales")
    /\ total_transactions' = Len(filtered_merged)
    /\ LET by_staff == GroupSum(filtered_merged, "StaffName", "Sales")
       IN IF TopStaffRaises(by_staff)
          THEN /\ err' = ValueError(113)
               /\ pc' = "crashed"
               /\ rendered' = rendered \o <<"Total Sales (RRP)", "Transactions">>
               /\ UNCHANGED <<top_staff, top_sales>>
          ELSE /\ top_staff' \in TopStaffChoices(by_staff)
               /\ top_sales' = TopSales(by_staff)
               /\ rendered' = rendered \o
                     <<"Total Sales (RRP)", "Transactions", "Top Seller">>
               /\ pc' = "SalesByStaff"
               /\ UNCHANGED err
    /\ UNCHANGED <<transactions, items, staff, warnings, start_date, end_date,
                   filtered_tx, merged, selected_staff, filtered_merged,
                   sales_by_item, staff_summary, top_profit_items,
                   sales_by_customer, display_df,
                   tick_step, tick_step_customer>>

\* --------------------------------- lines 124-164: staff chart, pay summary
\* 100 if max_sales < 2000 else 500; the maximum of no rows is NaN, and
\* NaN < 2000 is False
TickStep(rows) ==
    IF rows # <<>> /\ Max({rows[i].val : i \in 1..Len(rows)}) < TickThreshold * SalesUnit
    THEN TickSmall
    ELSE TickLarge

PayRow(g) ==
    [key |-> g.key,
     Sales |-> FormatCurrency(g.val),
     Pay |-> FormatPay(g.val)]

SalesByStaff ==
    /\ pc = "SalesByStaff"
    /\ LET by_staff == SortDesc(GroupSum(filtered_merged, "StaffName", "Sales"))
       IN /\ sales_by_item' = by_staff
          /\ tick_step' = TickStep(by_staff)
          /\ staff_summary' = [i \in 1..Len(by_staff) |-> PayRow(by_staff[i])]
    /\ rendered' = rendered \o <<"Sales by Staff", "Pay Summary">>
    /\ pc' = "ProfitMargin"
    /\ UNCHANGED <<transactions, items, staff, err, warnings, start_date,
                   end_date, filtered_tx, merged, selected_staff,
                   filtered_merged, total_sales, total_transactions, top_staff,
                   top_sales, top_profit_items, sales_by_customer, display_df,
                   tick_step_customer>>

\* ------------------------------------------ lines 166-196: profit by item
\* the margin written back into RRP
DeriveProfitRowInPlace(r) ==
    LET cost == AstypeFloat(ReplaceCurrency(r.MaterialCost))
    IN [MaterialCost |-> cost, RRP |-> Sub(r.RRP, cost),
        Profit |-> Mul(Sub(r.RRP, cost), r.Amount)] @@ r

\* Material Cost cleaned like RRP; Profit = (RRP - Material Cost) * Amount
DeriveProfitRow(r) ==
    LET cost == AstypeFloat(ReplaceCurrency(r.MaterialCost))
    IN [MaterialCost |-> cost, Profit |-> Mul(Sub(r.RRP, cost), r.Amount)] @@ r

DeriveProfitRaises(rows) ==
    \E i \in 1..Len(rows) : AstypeFloatRaises(ReplaceCurrency(rows[i].MaterialCost))

\* merged.groupby("Item")[["Profit", "Amount"]].sum().sort_values("Profit")
ProfitByItem(rows) ==
    LET profit == GroupSum(rows, "Item", "Profit")
        amount == GroupSum(rows, "Item", "Amount")
    IN SortDesc([i \in 1..Len(profit) |->
                   [key |-> profit[i].key, val |-> profit[i].val,
                    Amount |-> amount[i].val]])

\* the staff-filtered rows instead of all rows
ProfitSourceFiltered(all_rows, staff_rows) ==
    SelectSeq(all_rows, LAMBDA r :
        \E i \in 1..Len(staff_rows) : staff_rows[i].StaffName = r.StaffName)

\* the table the profit aggregation reads
ProfitSource(all_rows, staff_rows) == all_rows

ProfitMargin ==
    /\ pc = "ProfitMargin"
    /\ IF DeriveProfitRaises(merged)
       THEN /\ err' = ValueError(169)
            /\ pc' = "crashed"
            /\ UNCHANGED <<merged, top_profit_items, rendered>>
       ELSE /\ merged' = [i \in 1..Len(merged) |-> DeriveProfitRow(merged[i])]
            /\ top_profit_items' =
                  HeadN(ProfitByItem(ProfitSource(merged', filtered_merged)), TopN)
            /\ rendered' = Append(rendered, "Profit Margin")
            /\ pc' = "TopCustomers"
            /\ UNCHANGED err
    /\ UNCHANGED <<transactions, items, staff, warnings, start_date, end_date,
                   filtered_tx, selected_staff, filtered_merged, total_sales,
                   total_transactions, top_staff, top_sales, sales_by_item,
                   staff_summary, sales_by_customer, display_df,
                   tick_step, tick_step_customer>>

\* ------------------------------------------- lines 198-224: top customers
TopCustomers ==
    /\ pc = "TopCustomers"
    /\ sales_by_customer' =
          HeadN(SortDesc(GroupSum(filtered_merged, "Customer", "Sales")), TopN)
    /\ tick_step_customer' = TickStep(sales_by_customer')
    /\ rendered' = Append(rendered, "Top 10 Customers")
    /\ pc' = "Transactions"
    /\ UNCHANGED <<transactions, items, staff, err, warnings, start_date,
                   end_date, filtered_tx, merged, selected_staff,
                   filtered_merged, total_sales, total_transactions, top_staff,
                   top_sales, sales_by_item, staff_summary, top_profit_items,
                   display_df,
                   tick_step>>

\* --------------------------------------- lines 226-236: transactions table
\* "${:,.2f}".format(nan) is "$nan"
DisplayRow(r) ==
    [tx |-> r.tx, Timestamp |-> r.Timestamp, StaffName |-> r.StaffName,
     Food |-> r.Food, Customer |-> r.Customer,
     Sales |-> IF r.Sales.k = "num" THEN FormatCurrency(r.Sales.n)
               ELSE <<"$", "n", "a", "n">>]

TransactionsTable ==
    /\ pc = "Transactions"
    /\ display_df' = [i \in 1..Len(filtered_merged) |-> DisplayRow(filtered_merged[i])]
    /\ rendered' = Append(rendered, "Transactions table")
    /\ pc' = "done"
    /\ UNCHANGED <<transactions, items, staff, err, warnings, start_date,
                   end_date, filtered_tx, merged, selected_staff,
                   filtered_merged, total_sales, total_transactions, top_staff,
                   top_sales, sales_by_item, staff_summary, top_profit_items,
                   sales_by_customer,
                   tick_step, tick_step_customer>>

Next ==
    \/ DateFilter
    \/ Join
    \/ Derive
    \/ StaffFilter
    \/ Metrics
    \/ SalesByStaff
    \/ ProfitMargin
    \/ TopCustomers
    \/ TransactionsTable

Spec == Init /\ [][Next]_vars

\* ================================================================== claims
Shown(label) == \E i \in 1..Len(rendered) : rendered[i] = label

\* the derivation of lines 64-71 has run without raising
Derived ==
    \/ pc \in {"StaffFilter", "Metrics", "SalesByStaff", "ProfitMargin",
               "TopCustomers", "Transactions", "done"}
    \/ pc = "crashed" /\ err.line \in {113, 169}

\* the staff filter of lines 76-80 has run
Selected == Derived /\ pc # "StaffFilter"

UniqueKeys ==
    /\ \A i, j \in 1..Len(items) : items[i].Item = items[j].Item => i = j
    /\ \A i, j \in 1..Len(staff) : staff[i].Email = staff[j].Email => i = j

DefaultFilters ==
    /\ start_date = min_date
    /\ end_date = max_date
    /\ selected_staff = staff_names

InRange(i) ==
    /\ start_date <= DateOf(transactions[i].Timestamp)
    /\ DateOf(transactions[i].Timestamp) <= end_date

HasStaff(i) == \E k \in 1..Len(staff) : staff[k].Email = transactions[i].User

BadAmount(i) ==
    \/ transactions[i].Amount.k = "nan"
    \/ transactions[i].Amount.k = "str" /\ ~IsFloatLiteral(transactions[i].Amount.s)

BadCurrency(v) == v.k = "str" /\ ~IsFloatLiteral(StripCurrency(v.s))

Count(rows, P(_)) == Cardinality({j \in 1..Len(rows) : P(rows[j])})

\* the Sales of transaction i as the sheets give it, 0 when it is not in the
\* date range, not sold by a selected staff member, or has no Sales value
SalesOfTx(i) ==
    LET t == transactions[i]
        its == SelectSeq(items, LAMBDA r : r.Item = t.Food)
        sts == SelectSeq(staff, LAMBDA r : r.Email = t.User)
        amount == ToNumeric(t.Amount, "coerce")
        rrp == IF its = <<>> THEN NaN ELSE AstypeFloat(ReplaceCurrency(its[1].RRP))
    IN IF /\ InRange(i)
          /\ sts # <<>>
          /\ sts[1].StaffName \in selected_staff
          /\ amount.k = "num"
          /\ rrp.k = "num"
       THEN amount.n * rrp.n
       ELSE 0

RECURSIVE SumSalesOfTx(_)
SumSalesOfTx(n) == IF n = 0 THEN 0 ELSE SalesOfTx(n) + SumSalesOfTx(n - 1)

StaffSum(name) ==
    SumCol(SelectSeq(filtered_merged, LAMBDA r : r.StaffName = name), "Sales")

\* C1: whenever the filters select zero rows the run completes without an
\* exception and renders Total Sales $0.00, 0 transactions and empty charts.
C1_EmptySelectionRenders ==
    (Selected /\ filtered_merged = <<>> /\ pc \in {"crashed", "done"}) =>
        /\ err = NoError
        /\ FormatCurrency(total_sales) = <<"$", "0", ".", "0", "0">>
        /\ total_transactions = 0
        /\ Shown("Sales by Staff") /\ sales_by_item = <<>>
        /\ Shown("Profit Margin")
        /\ Shown("Top 10 Customers") /\ sales_by_customer = <<>>

\* C2: with unique Item and Email keys the Total Sales metric is the sum of
\* the Sales of the filtered and joined rows, which hold every transaction of
\* the date range and the staff selection once, and no transaction twice.
C2_TotalIsSumOfRows ==
    (UniqueKeys /\ Shown("Total Sales (RRP)")) =>
        /\ total_sales = SumCol(filtered_merged, "Sales")
        /\ total_sales = SumSalesOfTx(Len(transactions))
        /\ \A i \in 1..Len(transactions) :
              Count(filtered_merged, LAMBDA r : r.tx = i) <= 1

C2_Witness ==
    /\ pc = "done"
    /\ UniqueKeys
    /\ Len(filtered_merged) = 1
    /\ Len(merged) = 2
    /\ total_sales > 0
    /\ \E j \in 1..2 : merged[j].StaffName \notin selected_staff /\ merged[j].Sales.k = "num"

\* C3: the Top Seller's summed Sales is at least that of every staff member
\* of the filtered set, and the amount shown is the Top Seller's own sum.
C3_TopSellerIsMax ==
    Shown("Top Seller") =>
        /\ \E j \in 1..Len(filtered_merged) : filtered_merged[j].StaffName = top_staff
        /\ \A j \in 1..Len(filtered_merged) :
              StaffSum(top_staff) >= StaffSum(filtered_merged[j].StaffName)
        /\ top_sales = StaffSum(top_staff)

C3_Witness ==
    /\ pc = "done"
    /\ \E j \in 1..Len(filtered_merged) :
          /\ filtered_merged[j].StaffName # top_staff
          /\ StaffSum(filtered_merged[j].StaffName) > 0
          /\ StaffSum(filtered_merged[j].StaffName) < top_sales

\* C4: for start <= end the date filter keeps exactly the transactions whose
\* date lies in [start, end], and the joined rows are among the joined rows
\* of the full range [min_date, max_date], each no more often than there.
FullRangeRows == JoinTables(FilterTx(transactions, min_date, max_date))

C4_MonotonicNarrowing ==
    (pc = "Derive" /\ start_date <= end_date) =>
        /\ {filtered_tx[j].tx : j \in 1..Len(filtered_tx)}
              = {i \in 1..Len(transactions) : InRange(i)}
        /\ \A j \in 1..Len(merged) :
              Count(merged, LAMBDA r : r = merged[j])
                 <= Count(FullRangeRows, LAMBDA r : r = merged[j])

C4_Witness ==
    /\ pc = "Derive"
    /\ start_date <= end_date
    /\ merged # <<>>
    /\ Len(merged) < Len(FullRangeRows)
    /\ \E j \in 1..Len(merged) : merged[j].Timestamp = 1 /\ end_date = 0

\* C5: a transaction whose Amount is not numeric does not abort the run; its
\* Amount and its Sales are missing and Total Sales is the sum of the others.
C5_BadAmountIsMissing ==
    /\ err.line # 68
    /\ Derived =>
          \A j \in 1..Len(merged) : BadAmount(merged[j].tx) =>
              merged[j].Amount = NaN /\ merged[j].Sales = NaN
    /\ Shown("Total Sales (RRP)") =>
          total_sales = SumCol(SelectSeq(filtered_merged,
                                         LAMBDA r : ~BadAmount(r.tx)), "Sales")

C5_Witness ==
    /\ pc = "done"
    /\ total_sales > 0
    /\ \E j \in 1..Len(filtered_merged) :
          /\ BadAmount(filtered_merged[j].tx)
          /\ filtered_merged[j].RRP.k = "num"
          /\ filtered_merged[j].Sales = NaN

\* C6: a Material Cost or RRP that is no number after stripping "$" and ","
\* becomes missing for its row and never aborts the run.
C6_BadCurrencyIsMissing ==
    /\ err.line \notin {65, 169}
    /\ Derived => \A j \in 1..Len(merged) :
          \A k \in 1..Len(items) :
              (items[k].Item = merged[j].Food /\ BadCurrency(items[k].RRP))
                 => \E m \in 1..Len(merged) :
                       merged[m].tx = merged[j].tx /\ merged[m].RRP = NaN

\* C7: a repeated Item or Email key is reported as a DataIntegrityError
\* warning and does not block rendering.
C7_DuplicateKeyWarns ==
    (~UniqueKeys /\ pc \in {"crashed", "done"}) =>
        "DataIntegrityError" \in warnings

\* C8: deriving an already derived table again leaves its Sales and Profit
\* columns as they are.
C8_DerivationIdempotent ==
    /\ Derived =>
          /\ ~RRPRaises(merged) /\ ~AmountRaises(merged)
          /\ \A j \in 1..Len(merged) :
                DeriveSalesRow(merged[j]).Sales = merged[j].Sales
    /\ Shown("Profit Margin") =>
          /\ ~DeriveProfitRaises(merged)
          /\ \A j \in 1..Len(merged) :
                LET again == DeriveProfitRow(DeriveSalesRow(merged[j]))
                IN again.Sales = merged[j].Sales /\ again.Profit = merged[j].Profit

C8_Witness ==
    /\ pc = "done"
    /\ \E j \in 1..Len(merged) :
          /\ merged[j].Profit.k = "num" /\ merged[j].Profit.n > 0
          /\ merged[j].Sales.k = "num" /\ merged[j].Sales.n > merged[j].Profit.n
          /\ \E k \in 1..Len(items) :
                items[k].Item = merged[j].Item /\ "," \in Range(items[k].RRP.s)

\* C9: the item-profit table is that of all joined rows of the date range,
\* whatever the staff selection; Total Sales, the transaction count and the
\* staff and customer tables are those of the rows of the selected staff.
AllRowsDerived ==
    LET rows == JoinTables(FilterTx(transactions, start_date, end_date))
    IN [j \in 1..Len(rows) |-> DeriveProfitRow(DeriveSalesRow(rows[j]))]

SelectedRows == SelectSeq(merged, LAMBDA r : r.StaffName \in selected_staff)

\* the item-profit table the script computes under the staff selection sel
ProfitTableFor(sel) ==
    HeadN(ProfitByItem(ProfitSource(merged,
              SelectSeq(merged, LAMBDA r : StaffMask(r, sel)))), TopN)

C9_ProfitIgnoresStaffFilter ==
    /\ Shown("Profit Margin") =>
          /\ top_profit_items = HeadN(ProfitByItem(AllRowsDerived), TopN)
          /\ \A sel \in SUBSET staff_names : ProfitTableFor(sel) = top_profit_items
    /\ Shown("Total Sales (RRP)") =>
          /\ total_transactions = Len(SelectedRows)
          /\ total_sales = SumCol(SelectedRows, "Sales")
    /\ pc = "done" =>
          /\ sales_by_item = SortDesc(GroupSum(SelectedRows, "StaffName", "Sales"))
          /\ sales_by_customer
                = HeadN(SortDesc(GroupSum(SelectedRows, "Customer", "Sales")), TopN)

C9_Witness ==
    /\ pc = "done"
    /\ selected_staff # {}
    /\ Len(top_profit_items) = 2
    /\ \E j \in 1..Len(merged) :
          /\ merged[j].StaffName \in staff_names \ selected_staff
          /\ merged[j].Profit.k = "num" /\ merged[j].Profit.n # 0
          /\ \A m \in 1..Len(filtered_merged) : filtered_merged[m].Item # merged[j].Item

\* C10: rows without a Staff Name are in no staff-filtered set, and
\* under default filters the count is the number of loaded transactions only
\* if every User has a matching Email.
NoUnmatchedRowSelected ==
    /\ \A j \in 1..Len(filtered_merged) : filtered_merged[j].StaffName # NoMatch
    /\ \A j \in 1..Len(sales_by_item) : sales_by_item[j].key # NoMatch
    /\ \A j \in 1..Len(display_df) : display_df[j].StaffName # NoMatch
    /\ Shown("Total Sales (RRP)") =>
          /\ total_transactions = Count(merged, LAMBDA r : r.StaffName # NoMatch
                                                     /\ r.StaffName \in selected_staff)
          /\ total_sales = SumCol(SelectSeq(merged, LAMBDA r : r.StaffName # NoMatch
                                                     /\ r.StaffName \in selected_staff),
                                  "Sales")

C10_CountOnlyIfAllMatched ==
    /\ NoUnmatchedRowSelected
    /\ (Shown("Transactions") /\ DefaultFilters
          /\ total_transactions = Len(transactions))
          => \A i \in 1..Len(transactions) : HasStaff(i)

\* C10, for unique Item and Email keys: the same.
C10_CountOnlyIfAllMatchedUnique ==
    /\ NoUnmatchedRowSelected
    /\ (UniqueKeys /\ Shown("Transactions") /\ DefaultFilters
          /\ total_transactions = Len(transactions))
          => \A i \in 1..Len(transactions) : HasStaff(i)

C10_Witness ==
    /\ pc = "done"
    /\ UniqueKeys
    /\ DefaultFilters
    /\ \E j \in 1..Len(merged) : merged[j].StaffName = NoMatch /\ merged[j].Sales.k = "num"
    /\ total_transactions = 1
    /\ Len(transactions) = 2
====
